---- MODULE Spec2Model ----
(***************************************************************************)
(* libtimetag, src/__init__.py: the SSTT header parser read_sstt_header    *)
(* and the dataset importer import_data with its derivation pass.          *)
(*                                                                         *)
(* A line of the header file is a sequence of chunks; a chunk is either    *)
(* the tab character or a tab-free piece of text, and the text of the line *)
(* is the concatenation of its chunks.  Python values are tagged records   *)
(* (PyInt, PyBool, PyStr, PyFloat, PyDate, PyNone); a dict is a function   *)
(* whose domain is its key set.  Sequences are 1-based, so chan_ID_index   *)
(* holds the Python index plus one and NoIndex stands for None.            *)
(***************************************************************************)
EXTENDS Integers, Sequences, FiniteSets, TLC

VARIABLES
    caller,                \* the public operation that was called
    lines,                 \* the lines of the header file (list built at 21-34)
    i,                     \* number of lines the parsing loop has consumed
    start_exp_header,
    exp_header_contents,
    start_chan_header,
    chan_header_contents,
    exp_header_headings,
    chan_header_headings,
    chan_ID_index,
    exp_header,
    chan_headers,          \* the dict import_data calls chan_header (same object)
    printed,               \* diagnostics written to standard output
    consumed,              \* consumed[k]: the branch of the loop that took line k
    pc,                    \* "parse", "load", "derive", "done"
    result,                \* outcome of the call, once pc = "done"
    data,                  \* import_data: channel -> [macro, micro]
    declared,              \* the channel mapping as read_sstt_header returned it
    chan_files,            \* what read_sstt_data returned for each channel
    derived                \* import_data: channels the second loop has processed

pvars == <<lines, i, start_exp_header, exp_header_contents, start_chan_header,
           chan_header_contents, exp_header_headings, chan_header_headings,
           chan_ID_index, exp_header, printed, consumed>>
vars == <<caller, pvars, chan_headers, pc, result, data, declared, chan_files,
          derived>>

----------------------------------------------------------------------------
(* Python values and dicts *)

PyNone == [t |-> "None"]
PyInt(n) == [t |-> "int", v |-> n]
PyBool(b) == [t |-> "bool", v |-> b]
PyStr(s) == [t |-> "str", v |-> s]
PyFloat(m) == [t |-> "float", v |-> m]
PyDate(d) == [t |-> "datetime", v |-> d]

Ok(v) == [ok |-> TRUE, val |-> v]
Raise(e) == [ok |-> FALSE, exc |-> e]

Put(d, k, v) == [x \in (DOMAIN d) \cup {k} |-> IF x = k THEN v ELSE d[x]]

Range(s) == {s[k] : k \in DOMAIN s}

----------------------------------------------------------------------------
(* Lines and tokens *)

TAB == "\t"

RECURSIVE LineText(_)
LineText(l) == IF l = <<>> THEN "" ELSE Head(l) \o LineText(Tail(l))

\* str.split("\t"): the pieces between tabs, empty pieces included; always
\* at least one piece.
RECURSIVE SplitFrom(_, _, _)
SplitFrom(l, k, cur) ==
    IF k > Len(l) THEN <<cur>>
    ELSE IF l[k] = TAB THEN <<cur>> \o SplitFrom(l, k + 1, "")
    ELSE SplitFrom(l, k + 1, cur \o l[k])

SplitTab(l) == SplitFrom(l, 1, "")

\* [c for c in contents if c]
DropEmpty(contents) == SelectSeq(contents, LAMBDA c : c # "")

----------------------------------------------------------------------------
(* Literals the coercions understand.  A token outside a table makes the   *)
(* conversion raise ValueError.                                            *)

IntLit == ("0" :> 0) @@ ("1" :> 1) @@ ("01" :> 1) @@ ("2" :> 2) @@ ("3" :> 3)
          @@ ("4" :> 4) @@ ("-1" :> -1)

FloatLit == ("81e-12" :> <<81, -12>>) @@ ("1e-9" :> <<1, -9>>)
            @@ ("1.0e-9" :> <<1, -9>>) @@ ("2e-9" :> <<2, -9>>)

DateLit == ("2020-01-02 03:04:05" :> <<2020, 1, 2, 3, 4, 5>>)
           @@ ("2020-01-02T03:04:05" :> <<2020, 1, 2, 3, 4, 5>>)

QuotedLit == ("\"a.c1\"" :> "a.c1") @@ ("\"\"" :> "")

ToInt(c) == IF c \in DOMAIN IntLit THEN Ok(PyInt(IntLit[c])) ELSE Raise("ValueError")

ToDouble(c) == IF c \in DOMAIN FloatLit THEN Ok(PyFloat(FloatLit[c]))
               ELSE Raise("ValueError")

ToDatetime(c) == IF c \in DOMAIN DateLit THEN Ok(PyDate(DateLit[c]))
                 ELSE Raise("ValueError")

\* str(c).replace('"', '')
ToStr(c) == Ok(PyStr(IF c \in DOMAIN QuotedLit THEN QuotedLit[c] ELSE c))


\* np.int8(c) for a string c, then np.bool(...) of the integer, then the
\* np.bool(...) of line 162, which leaves a bool as it is.
ToInt8(c) ==
    IF c \notin DOMAIN IntLit THEN Raise("ValueError")
    ELSE IF IntLit[c] < -128 \/ IntLit[c] > 127 THEN Raise("OverflowError")
    ELSE Ok(PyInt(IntLit[c]))

ToBool(c) ==
    LET n == ToInt8(c)
    IN  IF n.ok THEN Ok(PyBool(n.val.v # 0)) ELSE n

----------------------------------------------------------------------------
(* The tables of read_sstt_header *)

exp_header_init ==
    ("Time_unit_seconds" :> PyFloat(<<81, -12>>))
    @@ ("device_type" :> PyStr("qutau"))
    @@ ("experiment_start_timestamp_UTC" :> PyNone)

exp_info_types ==
    ("Time_unit_seconds" :> "double")
    @@ ("device_type" :> "str")
    @@ ("experiment_start_timestamp_UTC" :> "DATETIME")

chan_info_types ==
    ("ChannelID" :> "int")
    @@ ("Filename" :> "str")
    @@ ("NumPhotons" :> "int64")
    @@ ("NumOverflows" :> "int64")
    @@ ("Filesize" :> "int64")
    @@ ("HardwareSyncDivider" :> "int64")
    @@ ("AdditionalSyncDivider" :> "int64")
    @@ ("TotalSyncDivider" :> "int64")
    @@ ("IsPulsesChannel" :> "bool")
    @@ ("HasPulsesChannel" :> "bool")
    @@ ("CorrespondingPulsesChannel" :> "int32")
    @@ ("HasMicrotimes" :> "bool")
    @@ ("MicroDelayTime" :> "int64")

default_chan_header ==
    ("ChannelID" :> PyNone)
    @@ ("Filename" :> PyStr("None"))
    @@ ("NumPhotons" :> PyInt(0))
    @@ ("NumOverflows" :> PyInt(0))
    @@ ("Filesize" :> PyInt(0))
    @@ ("HardwareSyncDivider" :> PyInt(1))
    @@ ("AdditionalSyncDivider" :> PyInt(1))
    @@ ("TotalSyncDivider" :> PyInt(1))
    @@ ("IsPulsesChannel" :> PyBool(FALSE))
    @@ ("HasPulsesChannel" :> PyBool(FALSE))
    @@ ("CorrespondingPulsesChannel" :> PyNone)
    @@ ("HasMicrotimes" :> PyBool(FALSE))
    @@ ("MicroDelayTime" :> PyInt(0))

NoIndex == 0

\* Lines 105-114: the conversion of one experiment value.
ExpCoerce(hd_nm, c) ==
    IF hd_nm \notin DOMAIN exp_info_types THEN Ok(PyStr(c))
    ELSE IF exp_info_types[hd_nm] = "DATETIME" THEN ToDatetime(c)
    ELSE IF exp_info_types[hd_nm] = "double" THEN ToDouble(c)
    ELSE Ok(PyStr(c))

\* Lines 102-116: the assignments of one experiment value row, in order,
\* stopping at the first conversion that raises.
RECURSIVE ExpAssign(_, _, _, _)
ExpAssign(hdr, headings, contents, j) ==
    IF j > Len(contents) THEN [ok |-> TRUE, hdr |-> hdr]
    ELSE LET c == ExpCoerce(headings[j], contents[j])
         IN  IF ~c.ok THEN [ok |-> FALSE, exc |-> c.exc, hdr |-> hdr]
             ELSE ExpAssign(Put(hdr, headings[j], c.val), headings, contents, j + 1)

\* FindChanID taking ChannelID for the first column whenever it is present.
FindChanID_First(headings, old) ==
    IF \E j \in DOMAIN headings : headings[j] = "ChannelID" THEN 1 ELSE old

\* Lines 124-127: the first column named ChannelID, or the index kept from
\* before when there is none.
FindChanID(headings, old) ==
    IF \E j \in DOMAIN headings : headings[j] = "ChannelID"
    THEN CHOOSE j \in DOMAIN headings :
            /\ headings[j] = "ChannelID"
            /\ \A k \in 1..(j - 1) : headings[k] # "ChannelID"
    ELSE old

\* Lines 157-165: the conversion of one channel value.
ChanCoerce(header_name, c) ==
    IF header_name \notin DOMAIN chan_info_types THEN Ok(PyStr(c))
    ELSE IF chan_info_types[header_name] = "bool" THEN ToBool(c)
    ELSE IF chan_info_types[header_name] = "str" THEN ToStr(c)
    ELSE ToInt(c)

\* Lines 154-167: the assignments of one channel row into rec, in order.
RECURSIVE ChanAssign(_, _, _, _)
ChanAssign(rec, headings, contents, j) ==
    IF j > Len(contents) THEN [ok |-> TRUE, rec |-> rec]
    ELSE LET c == ChanCoerce(headings[j], contents[j])
         IN  IF ~c.ok THEN [ok |-> FALSE, exc |-> c.exc, rec |-> rec]
             ELSE ChanAssign(Put(rec, headings[j], c.val), headings, contents, j + 1)

\* Line 152: the record a row starts from.
RowBase(hdrs, chan_ID) == default_chan_header

\* Lines 150-167: one accepted channel row applied to the mapping.
ChanRowApply(hdrs, headings, contents, idx) ==
    IF idx > Len(contents) THEN [ok |-> FALSE, exc |-> "IndexError", hdrs |-> hdrs]
    ELSE LET id == ToInt(contents[idx])
         IN  IF ~id.ok THEN [ok |-> FALSE, exc |-> id.exc, hdrs |-> hdrs]
             ELSE LET a == ChanAssign(RowBase(hdrs, id.val.v), headings, contents, 1)
                  IN  IF a.ok THEN [ok |-> TRUE, hdrs |-> Put(hdrs, id.val.v, a.rec)]
                      ELSE [ok |-> FALSE, exc |-> a.exc,
                            hdrs |-> Put(hdrs, id.val.v, a.rec)]

----------------------------------------------------------------------------
(* How a call ends.  read_sstt_header hands back a tuple, None, or lets an *)
(* exception escape; import_data unpacks the tuple at line 196, so None    *)
(* there raises TypeError.                                                 *)

Pending == [kind |-> "pending"]
RetTuple == [kind |-> "tuple"]        \* (exp_header, chan_headers)
RetNone == [kind |-> "None"]
RetDataset == [kind |-> "dataset"]    \* (exp_header, chan_header, data)
Raised(e) == [kind |-> "raise", exc |-> e]

HeaderEnds(r, hdrs) ==
    /\ declared' = hdrs
    /\ IF caller = "read_sstt_header"
       THEN pc' = "done" /\ result' = r
       ELSE IF r = RetTuple
            THEN /\ pc' = IF DOMAIN hdrs = {} THEN "derive" ELSE "load"
                 /\ result' = Pending
            ELSE /\ pc' = "done"
                 /\ result' = IF r = RetNone THEN Raised("TypeError") ELSE r

Parsing == pc = "parse" /\ i < Len(lines)
l == lines[i + 1]
Took(branch) == /\ i' = i + 1
                /\ consumed' = Append(consumed, branch)
                /\ UNCHANGED <<caller, lines, data, chan_files, derived>>
Goes == UNCHANGED <<pc, result, declared>>

----------------------------------------------------------------------------
(* read_sstt_header: one action for each branch of the loop body, 81-167 *)

\* 82-84
ExpMarker ==
    /\ Parsing
    /\ LineText(l) = "EXPERIMENT_HEADER"
    /\ start_exp_header' = TRUE
    /\ Took("exp_marker") /\ Goes
    /\ UNCHANGED <<exp_header_contents, start_chan_header, chan_header_contents,
                   exp_header_headings, chan_header_headings, chan_ID_index,
                   exp_header, chan_headers, printed>>

\* 86-88
ChanMarker ==
    /\ Parsing
    /\ LineText(l) # "EXPERIMENT_HEADER"
    /\ LineText(l) = "CHANNEL_HEADER"
    /\ start_chan_header' = TRUE
    /\ Took("chan_marker") /\ Goes
    /\ UNCHANGED <<start_exp_header, exp_header_contents, chan_header_contents,
                   exp_header_headings, chan_header_headings, chan_ID_index,
                   exp_header, chan_headers, printed>>

NoMarker == /\ Parsing
            /\ LineText(l) # "EXPERIMENT_HEADER"
            /\ LineText(l) # "CHANNEL_HEADER"

\* 90-94
ExpColumns ==
    /\ NoMarker
    /\ start_exp_header
    /\ exp_header_headings' = SplitTab(l)
    /\ start_exp_header' = FALSE
    /\ exp_header_contents' = TRUE
    /\ Took("exp_columns") /\ Goes
    /\ UNCHANGED <<start_chan_header, chan_header_contents, chan_header_headings,
                   chan_ID_index, exp_header, chan_headers, printed>>

InExpRow == NoMarker /\ ~start_exp_header /\ exp_header_contents

\* 96-100
ExpRowMismatch ==
    /\ InExpRow
    /\ Len(SplitTab(l)) # Len(exp_header_headings)
    /\ printed' = printed \cup {"Error in experiment header!"}
    /\ Took("exp_row")
    /\ UNCHANGED <<start_exp_header, exp_header_contents, start_chan_header,
                   chan_header_contents, exp_header_headings, chan_header_headings,
                   chan_ID_index, exp_header, chan_headers>>
    /\ HeaderEnds(RetNone, chan_headers)

\* ExpRow without line 118: the flag exp_header_contents stays set.
ExpRow_KeepsFlag ==
    /\ InExpRow
    /\ Len(SplitTab(l)) = Len(exp_header_headings)
    /\ LET a == ExpAssign(exp_header, exp_header_headings, SplitTab(l), 1)
       IN  /\ exp_header' = a.hdr
           /\ IF a.ok THEN Goes ELSE HeaderEnds(Raised(a.exc), chan_headers)
    /\ Took("exp_row")
    /\ UNCHANGED <<start_exp_header, exp_header_contents, start_chan_header,
                   chan_header_contents, exp_header_headings, chan_header_headings,
                   chan_ID_index, chan_headers, printed>>

\* 96-119
ExpRow ==
    /\ InExpRow
    /\ Len(SplitTab(l)) = Len(exp_header_headings)
    /\ LET a == ExpAssign(exp_header, exp_header_headings, SplitTab(l), 1)
       IN  /\ exp_header' = a.hdr
           /\ IF a.ok
              THEN exp_header_contents' = FALSE /\ Goes
              ELSE UNCHANGED exp_header_contents /\ HeaderEnds(Raised(a.exc), chan_headers)
    /\ Took("exp_row")
    /\ UNCHANGED <<start_exp_header, start_chan_header, chan_header_contents,
                   exp_header_headings, chan_header_headings, chan_ID_index,
                   chan_headers, printed>>

InChanColumns == /\ NoMarker /\ ~start_exp_header /\ ~exp_header_contents
                 /\ start_chan_header

\* 121-132 and 169: no index is known, the loop is left and the function
\* returns what it has.
ChanColumnsMissing ==
    /\ InChanColumns
    /\ FindChanID(SplitTab(l), chan_ID_index) = NoIndex
    /\ chan_header_headings' = SplitTab(l)
    /\ printed' = printed \cup {"Error: could not find channel ID column"}
    /\ Took("chan_columns")
    /\ UNCHANGED <<start_exp_header, exp_header_contents, start_chan_header,
                   chan_header_contents, exp_header_headings, chan_ID_index,
                   exp_header, chan_headers>>
    /\ HeaderEnds(RetTuple, chan_headers)

\* 121-136
ChanColumns ==
    /\ InChanColumns
    /\ FindChanID(SplitTab(l), chan_ID_index) # NoIndex
    /\ chan_header_headings' = SplitTab(l)
    /\ chan_ID_index' = FindChanID(SplitTab(l), chan_ID_index)
    /\ start_chan_header' = FALSE
    /\ chan_header_contents' = TRUE
    /\ Took("chan_columns") /\ Goes
    /\ UNCHANGED <<start_exp_header, exp_header_contents, exp_header_headings,
                   exp_header, chan_headers, printed>>

InChanRows == /\ NoMarker /\ ~start_exp_header /\ ~exp_header_contents
              /\ ~start_chan_header /\ chan_header_contents

\* 138-141
ChanBlank ==
    /\ InChanRows
    /\ LineText(l) = ""
    /\ chan_header_contents' = FALSE
    /\ Took("chan_blank") /\ Goes
    /\ UNCHANGED <<start_exp_header, exp_header_contents, start_chan_header,
                   exp_header_headings, chan_header_headings, chan_ID_index,
                   exp_header, chan_headers, printed>>

\* ChanRowMismatch skipping the row (continue) instead of returning None.
ChanRowMismatch_Skips ==
    /\ InChanRows
    /\ LineText(l) # ""
    /\ Len(DropEmpty(SplitTab(l))) # Len(chan_header_headings)
    /\ printed' = printed \cup {"Error in channel header!"}
    /\ Took("chan_row") /\ Goes
    /\ UNCHANGED <<start_exp_header, exp_header_contents, start_chan_header,
                   chan_header_contents, exp_header_headings, chan_header_headings,
                   chan_ID_index, exp_header, chan_headers>>

\* 143-148
ChanRowMismatch ==
    /\ InChanRows
    /\ LineText(l) # ""
    /\ Len(DropEmpty(SplitTab(l))) # Len(chan_header_headings)
    /\ printed' = printed \cup {"Error in channel header!"}
    /\ Took("chan_row")
    /\ UNCHANGED <<start_exp_header, exp_header_contents, start_chan_header,
                   chan_header_contents, exp_header_headings, chan_header_headings,
                   chan_ID_index, exp_header, chan_headers>>
    /\ HeaderEnds(RetNone, chan_headers)

\* 143-167
ChanRow ==
    /\ InChanRows
    /\ LineText(l) # ""
    /\ Len(DropEmpty(SplitTab(l))) = Len(chan_header_headings)
    /\ LET a == ChanRowApply(chan_headers, chan_header_headings,
                             DropEmpty(SplitTab(l)), chan_ID_index)
       IN  /\ chan_headers' = a.hdrs
           /\ IF a.ok THEN Goes ELSE HeaderEnds(Raised(a.exc), a.hdrs)
    /\ Took("chan_row")
    /\ UNCHANGED <<start_exp_header, exp_header_contents, start_chan_header,
                   chan_header_contents, exp_header_headings, chan_header_headings,
                   chan_ID_index, exp_header, printed>>

\* 81: a line outside every section falls through the loop body.
SkipLine ==
    /\ NoMarker
    /\ ~start_exp_header /\ ~exp_header_contents
    /\ ~start_chan_header /\ ~chan_header_contents
    /\ Took("skipped") /\ Goes
    /\ UNCHANGED <<start_exp_header, exp_header_contents, start_chan_header,
                   chan_header_contents, exp_header_headings, chan_header_headings,
                   chan_ID_index, exp_header, chan_headers, printed>>

\* 169: the loop ran out of lines.
ReturnHeader ==
    /\ pc = "parse"
    /\ i = Len(lines)
    /\ UNCHANGED <<caller, pvars, chan_headers, data, chan_files, derived>>
    /\ HeaderEnds(RetTuple, chan_headers)

ParseStep ==
    \/ ExpMarker \/ ChanMarker \/ ExpColumns \/ ExpRowMismatch \/ ExpRow
    \/ ChanColumnsMissing \/ ChanColumns \/ ChanBlank \/ ChanRowMismatch
    \/ ChanRow \/ SkipLine \/ ReturnHeader

----------------------------------------------------------------------------
(* import_data, 196-222 *)

MaxEvents == 3
MaxTime == 3

\* The Channel Data Reader (read_sstt_data of the C++ extension) returns the
\* channel's ascending macro timestamps and its micro timestamps.
Ascending(m) == \A k \in 1..(Len(m) - 1) : m[k] < m[k + 1]
MacroSeqs == UNION {{m \in [1..n -> 0..MaxTime] : Ascending(m)} : n \in 0..MaxEvents}
read_sstt_data(chan, m) == [macro |-> m, micro |-> [kind |-> "read", chan |-> chan]]

\* The microtime generator of the C++ extension, kept as the term of its call.
gen_micro_times(pulses, events, divider) ==
    [kind |-> "generated", pulses |-> pulses, events |-> events, divider |-> divider]

\* RoundHalfEven truncating towards minus infinity instead of rounding.
RoundDown(num, den) == IF den < 0 THEN (-num) \div (-den) ELSE num \div den

\* round(x) of Python 3 for x = num / den: nearest integer, ties to even.
RoundHalfEven(num, den) ==
    LET n == IF den < 0 THEN -num ELSE num
        d == IF den < 0 THEN -den ELSE den
        q == n \div d
        r == n % d
    IN  IF 2 * r < d THEN q
        ELSE IF 2 * r > d THEN q + 1
        ELSE IF q % 2 = 0 THEN q ELSE q + 1

\* macro[1:] - macro[:-1]
Diffs(m) == [k \in 1..(Len(m) - 1) |-> m[k + 1] - m[k]]

RECURSIVE SumSeq(_)
SumSeq(s) == IF s = <<>> THEN 0 ELSE Head(s) + SumSeq(Tail(s))

\* Line 218.  The average of no differences is nan and a division by zero
\* gives inf or nan; round raises ValueError for nan, OverflowError for inf.
PulsePeriodOf(m, divider) ==
    IF Len(m) < 2 THEN Raise("ValueError")
    ELSE IF divider = 0
         THEN IF SumSeq(Diffs(m)) = 0 THEN Raise("ValueError")
              ELSE Raise("OverflowError")
    ELSE Ok(PyInt(RoundHalfEven(SumSeq(Diffs(m)), Len(Diffs(m)) * divider)))

\* Recount overwriting a declared non-zero count as well.
Recount_Always(ch, m) == Put(ch, "NumPhotons", PyInt(Len(m)))

\* 210-211
Recount(ch, m) ==
    IF ch["NumPhotons"].v = 0 THEN Put(ch, "NumPhotons", PyInt(Len(m))) ELSE ch

\* NeedsMicro without the test NumPhotons > 0.
NeedsMicro_NoCount(ch) == ch["HasPulsesChannel"].v /\ ~ch["HasMicrotimes"].v

\* NeedsMicro without the test of HasMicrotimes.
NeedsMicro_OwnMicrotimes(ch) == ch["HasPulsesChannel"].v /\ ch["NumPhotons"].v > 0

\* 213
NeedsMicro(ch) ==
    ch["HasPulsesChannel"].v /\ ~ch["HasMicrotimes"].v /\ ch["NumPhotons"].v > 0

\* 215: the two look-ups by ch["CorrespondingPulsesChannel"]
RefKnown(ch, d) ==
    /\ ch["CorrespondingPulsesChannel"] # PyNone
    /\ ch["CorrespondingPulsesChannel"].v \in DOMAIN d

\* 217
IsPulses(ch) == ch["IsPulsesChannel"].v

\* MicroTimesFor passing the divider of the channel itself.
MicroTimesFor_OwnDivider(hdrs, d, chan) ==
    LET ref == hdrs[chan]["CorrespondingPulsesChannel"].v
    IN  gen_micro_times(d[ref].macro, d[chan].macro, hdrs[chan]["TotalSyncDivider"].v)

\* MicroTimesFor passing the referenced channel's NumPhotons, a field the
\* loop writes, as the divider.
MicroTimesFor_RefCount(hdrs, d, chan) ==
    LET ref == hdrs[chan]["CorrespondingPulsesChannel"].v
    IN  gen_micro_times(d[ref].macro, d[chan].macro, hdrs[ref]["NumPhotons"].v)

\* 215: the call of the generator for channel chan.
MicroTimesFor(hdrs, d, chan) ==
    LET ref == hdrs[chan]["CorrespondingPulsesChannel"].v
    IN  gen_micro_times(d[ref].macro, d[chan].macro, hdrs[ref]["TotalSyncDivider"].v)

\* 208-220: one iteration of the second loop, for channel chan.
DeriveChan(hdrs, d, chan) ==
    LET ch == Recount(hdrs[chan], d[chan].macro)
        h1 == Put(hdrs, chan, ch)
    IN  IF NeedsMicro(ch) /\ ~RefKnown(ch, d)
        THEN [ok |-> FALSE, exc |-> "KeyError", hdrs |-> h1, data |-> d]
        ELSE LET d1 == IF NeedsMicro(ch)
                       THEN Put(d, chan, [macro |-> d[chan].macro,
                                          micro |-> MicroTimesFor(h1, d, chan)])
                       ELSE d
                 pp == IF IsPulses(ch)
                       THEN PulsePeriodOf(d1[chan].macro, ch["TotalSyncDivider"].v)
                       ELSE Ok(PyInt(0))
             IN  IF pp.ok
                 THEN [ok |-> TRUE, hdrs |-> Put(h1, chan, Put(ch, "PulsePeriod", pp.val)),
                       data |-> d1]
                 ELSE [ok |-> FALSE, exc |-> pp.exc, hdrs |-> h1, data |-> d1]

\* 200-204: one iteration of the first loop.
Load ==
    /\ pc = "load"
    /\ \E chan \in DOMAIN chan_headers \ DOMAIN data :
         \E m \in MacroSeqs :
            /\ data' = Put(data, chan, read_sstt_data(chan, m))
            /\ chan_files' = Put(chan_files, chan, read_sstt_data(chan, m))
            /\ pc' = IF DOMAIN data' = DOMAIN chan_headers THEN "derive" ELSE "load"
    /\ UNCHANGED <<caller, pvars, chan_headers, result, declared, derived>>

\* 207-220: one iteration of the second loop.
Derive ==
    /\ pc = "derive"
    /\ \E chan \in DOMAIN chan_headers \ derived :
         LET a == DeriveChan(chan_headers, data, chan)
         IN  /\ chan_headers' = a.hdrs
             /\ data' = a.data
             /\ derived' = derived \cup {chan}
             /\ IF a.ok THEN UNCHANGED <<pc, result>>
                ELSE pc' = "done" /\ result' = Raised(a.exc)
    /\ UNCHANGED <<caller, pvars, declared, chan_files>>

\* 222
ReturnDataset ==
    /\ pc = "derive"
    /\ derived = DOMAIN chan_headers
    /\ pc' = "done"
    /\ result' = RetDataset
    /\ UNCHANGED <<caller, pvars, chan_headers, data, declared, chan_files, derived>>

ImportStep == Load \/ Derive \/ ReturnDataset

----------------------------------------------------------------------------
(* Header files *)

MaxRows == 2

RECURSIVE Tabbed(_)
Tabbed(tokens) ==
    IF Len(tokens) <= 1 THEN tokens
    ELSE <<Head(tokens), TAB>> \o Tabbed(Tail(tokens))

SeqsUpTo(S, n) == UNION {[1..k -> S] : k \in 0..n}

EXP == <<"EXPERIMENT_HEADER">>
CHN == <<"CHANNEL_HEADER">>
BLANK == <<>>
JUNK == <<"# sstt">>

\* Sections as they come, complete or cut short, right or wrong.
ExpColLine == Tabbed(<<"Time_unit_seconds", "device_type">>)
ExpRowLines == {Tabbed(<<"1e-9", "hydra">>), Tabbed(<<"2e-9", "pico">>),
                Tabbed(<<"1e-9">>), Tabbed(<<"fast", "hydra">>)}
ExpSections == {<<EXP>>, <<EXP, ExpColLine>>}
               \cup {<<EXP, ExpColLine, r>> : r \in ExpRowLines}

ChanColLines == {Tabbed(<<"ChannelID", "IsPulsesChannel">>),
                 Tabbed(<<"HasMicrotimes", "ChannelID">>),
                 Tabbed(<<"Filename", "IsPulsesChannel">>)}
ChanRowLines == {Tabbed(<<"1", "1">>), Tabbed(<<"2", "0">>) \o <<TAB>>,
                 Tabbed(<<"01", "2">>), Tabbed(<<"3">>)}
ChanSections == {<<CHN>>}
                \cup {<<CHN, c>> \o rs : c \in ChanColLines,
                                         rs \in SeqsUpTo(ChanRowLines, MaxRows)}

Sections == ExpSections \cup ChanSections \cup {<<BLANK>>, <<JUNK>>}
TwoSectionFiles == {s1 \o s2 : s1 \in Sections \cup {<<>>}, s2 \in Sections}

\* Headers in the shape of the format: an optional experiment section, then
\* an optional channel section.
GoodExp == {<<>>,
            <<EXP, Tabbed(<<"Time_unit_seconds", "device_type">>),
                   Tabbed(<<"1.0e-9", "hydra">>)>>,
            <<EXP, Tabbed(<<"experiment_start_timestamp_UTC", "Operator">>),
                   Tabbed(<<"2020-01-02T03:04:05", "bob">>)>>,
            <<EXP, Tabbed(<<"device_type">>), Tabbed(<<"pico">>)>>}
GoodRowsA == {Tabbed(<<"1", "1">>), Tabbed(<<"2", "0">>), Tabbed(<<"01", "0">>),
              Tabbed(<<"3", "1">>)}
GoodRowsB == {Tabbed(<<"\"a.c1\"", "1", "2">>), Tabbed(<<"b", "2", "0">>),
              Tabbed(<<"c", "3", "4">>)}
GoodChan ==
    {<<>>}
    \cup {<<CHN, Tabbed(<<"ChannelID", "IsPulsesChannel">>)>> \o rs :
             rs \in SeqsUpTo(GoodRowsA, MaxRows)}
    \cup {<<CHN, Tabbed(<<"Filename", "ChannelID", "NumPhotons">>)>> \o rs :
             rs \in SeqsUpTo(GoodRowsB, MaxRows)}
ShapedFiles == {e \o c : e \in GoodExp, c \in GoodChan}

\* One row with one boolean field, for every token of interest.
BoolFields == {"IsPulsesChannel", "HasPulsesChannel", "HasMicrotimes"}
BoolTokens == {"0", "1", "2", "-1", "01", "x"}
BoolFiles == {<<CHN, Tabbed(<<"ChannelID", f>>), Tabbed(<<"1", tok>>)>> :
                 f \in BoolFields, tok \in BoolTokens}

\* Rows with empty tokens at the end, in the middle and at the start, and a
\* column line that names ChannelID twice.
EmptyTokenRows == {<<"1", TAB, "b", TAB>>, <<"1", TAB, TAB, "b">>,
                   <<TAB, "1", TAB, "b">>, <<"1", TAB, TAB>>}
EmptyTokenFiles ==
    {<<CHN, Tabbed(<<"ChannelID", "Filename">>), r>> : r \in EmptyTokenRows}
    \cup {<<CHN, Tabbed(<<"ChannelID", "ChannelID">>), Tabbed(<<"1", "2">>)>>}

ParseFiles == TwoSectionFiles \cup ShapedFiles \cup BoolFiles \cup EmptyTokenFiles

\* Datasets: at most one reference channel (ID 1) and one detector channel
\* (ID 2), in the columns the derivation pass reads.
ImportCols == Tabbed(<<"ChannelID", "NumPhotons", "TotalSyncDivider", "IsPulsesChannel",
                       "HasPulsesChannel", "CorrespondingPulsesChannel",
                       "HasMicrotimes">>)
PulsesRows == {Tabbed(<<"1", "0", "1", "1", "0", "1", "0">>),
               Tabbed(<<"1", "0", "2", "1", "0", "1", "0">>),
               Tabbed(<<"1", "0", "0", "1", "0", "1", "0">>),
               Tabbed(<<"1", "0", "3", "0", "0", "1", "0">>)}
DetectorRows == {Tabbed(<<"2", "0", "1", "0", "1", "1", "0">>),
                 Tabbed(<<"2", "2", "1", "0", "1", "1", "0">>),
                 Tabbed(<<"2", "0", "1", "0", "1", "1", "1">>),
                 Tabbed(<<"2", "0", "1", "0", "1", "2", "0">>),
                 Tabbed(<<"2", "0", "1", "0", "1", "3", "0">>),
                 Tabbed(<<"2", "0", "1", "1", "1", "1", "0">>),
                 Tabbed(<<"2", "0", "1", "0", "0", "1", "0">>)}
DatasetFiles ==
    {<<CHN, ImportCols>> \o ps \o cs :
        ps \in {<<>>} \cup {<<r>> : r \in PulsesRows},
        cs \in {<<>>} \cup {<<r>> : r \in DetectorRows}}
    \cup {<<CHN, Tabbed(<<"ChannelID", "HasPulsesChannel">>), Tabbed(<<"1", "1">>)>>}

\* A few headers that take the parser through its other branches.
OtherFiles ==
    {<<JUNK, EXP, ExpColLine, Tabbed(<<"1e-9", "hydra">>), CHN,
       Tabbed(<<"ChannelID", "IsPulsesChannel">>), Tabbed(<<"1", "1">>), BLANK>>,
     <<EXP, ExpColLine, Tabbed(<<"1e-9">>)>>,
     <<CHN, Tabbed(<<"Filename", "IsPulsesChannel">>)>>,
     <<CHN, Tabbed(<<"ChannelID", "IsPulsesChannel">>), Tabbed(<<"3">>)>>}

ImportFiles == DatasetFiles \cup OtherFiles

----------------------------------------------------------------------------
(* Specifications *)

\* 36-47 and 198: the state when the loop over the lines starts.
Start(op, files) ==
    /\ caller = op
    /\ lines \in files
    /\ i = 0
    /\ start_exp_header = FALSE
    /\ exp_header_contents = FALSE
    /\ start_chan_header = FALSE
    /\ chan_header_contents = FALSE
    /\ exp_header_headings = <<>>
    /\ chan_header_headings = <<>>
    /\ chan_ID_index = NoIndex
    /\ exp_header = exp_header_init
    /\ chan_headers = <<>>
    /\ printed = {}
    /\ consumed = <<>>
    /\ pc = "parse"
    /\ result = Pending
    /\ data = <<>>
    /\ declared = <<>>
    /\ chan_files = <<>>
    /\ derived = {}

InitParse == Start("read_sstt_header", ParseFiles)
InitImport == Start("import_data", ImportFiles)
Init == InitParse \/ InitImport

Next == ParseStep \/ ImportStep

SpecParse == InitParse /\ [][ParseStep]_vars
SpecImport == InitImport /\ [][Next]_vars
Spec == Init /\ [][Next]_vars

----------------------------------------------------------------------------
(* Vocabulary of the properties *)

Returned == pc = "done" /\ result = RetTuple
Imported == pc = "done" /\ result = RetDataset

IsMarkerLine(line) == LineText(line) \in {"EXPERIMENT_HEADER", "CHANNEL_HEADER"}
Distinct(s) == \A a, b \in DOMAIN s : a # b => s[a] # s[b]
IndexOf(s, x) == CHOOSE j \in DOMAIN s : s[j] = x
Positions(role) == {k \in DOMAIN consumed : consumed[k] = role}

\* A line that is no marker and has no empty token.
PlainLine(line) ==
    /\ ~IsMarkerLine(line)
    /\ \A k \in DOMAIN SplitTab(line) : SplitTab(line)[k] # ""

\* The grammar of the header format: an optional experiment section of a
\* marker, one column line and one value line, then an optional channel
\* section of a marker, one column line and the channel rows.
ExpLen(f) == IF Len(f) >= 3 /\ LineText(f[1]) = "EXPERIMENT_HEADER" THEN 3 ELSE 0
ExpCols(f) == IF ExpLen(f) = 0 THEN <<>> ELSE SplitTab(f[2])
ExpVals(f) == IF ExpLen(f) = 0 THEN <<>> ELSE SplitTab(f[3])
ChanPart(f) == SubSeq(f, ExpLen(f) + 1, Len(f))
ChanCols(f) == IF Len(ChanPart(f)) < 2 THEN <<>> ELSE SplitTab(ChanPart(f)[2])
ChanRows(f) == SubSeq(ChanPart(f), 3, Len(ChanPart(f)))
RowID(f, row) == IntLit[SplitTab(row)[IndexOf(ChanCols(f), "ChannelID")]]
DeclaredIDs(f) == {RowID(f, ChanRows(f)[k]) : k \in DOMAIN ChanRows(f)}

WellFormedExp(f) ==
    ExpLen(f) # 0 =>
        /\ PlainLine(f[2]) /\ PlainLine(f[3])
        /\ Len(ExpCols(f)) = Len(ExpVals(f))
        /\ Distinct(ExpCols(f))
        /\ \A j \in DOMAIN ExpCols(f) : ExpCoerce(ExpCols(f)[j], ExpVals(f)[j]).ok

WellFormedRow(f, row) ==
    /\ PlainLine(row)
    /\ Len(SplitTab(row)) = Len(ChanCols(f))
    /\ \A j \in DOMAIN ChanCols(f) : ChanCoerce(ChanCols(f)[j], SplitTab(row)[j]).ok

WellFormedChan(f) ==
    ChanPart(f) # <<>> =>
        /\ Len(ChanPart(f)) >= 2
        /\ LineText(ChanPart(f)[1]) = "CHANNEL_HEADER"
        /\ PlainLine(ChanPart(f)[2])
        /\ Distinct(ChanCols(f))
        /\ "ChannelID" \in Range(ChanCols(f))
        /\ \A k \in DOMAIN ChanRows(f) : WellFormedRow(f, ChanRows(f)[k])
        /\ \A a, b \in DOMAIN ChanRows(f) :
              a # b => RowID(f, ChanRows(f)[a]) # RowID(f, ChanRows(f)[b])

WellFormedHeader(f) == WellFormedExp(f) /\ WellFormedChan(f)

----------------------------------------------------------------------------
(* Properties *)

\* C1: for a well-formed header (experiment section with a column line and a
\* value line of equal length, channel section whose column line has
\* ChannelID, M rows with as many tokens as columns and pairwise distinct
\* ChannelID values; all tokens valid for their columns) read_sstt_header
\* returns a channel mapping with exactly M entries keyed by the declared
\* IDs, and an experiment header made of the known fields and the declared
\* columns, each declared column holding its value and every known field
\* that is not declared holding its default.
C1_WellFormedHeaderIsRead ==
    (pc = "done" /\ WellFormedHeader(lines)) =>
        /\ result = RetTuple
        /\ DOMAIN chan_headers = DeclaredIDs(lines)
        /\ Cardinality(DOMAIN chan_headers) = Len(ChanRows(lines))
        /\ DOMAIN exp_header = DOMAIN exp_header_init \cup Range(ExpCols(lines))
        /\ \A j \in DOMAIN ExpCols(lines) :
              exp_header[ExpCols(lines)[j]]
                  = ExpCoerce(ExpCols(lines)[j], ExpVals(lines)[j]).val
        /\ \A f \in DOMAIN exp_header_init \ Range(ExpCols(lines)) :
              exp_header[f] = exp_header_init[f]

\* C1 witness: a well-formed header with an experiment section and two
\* channel rows has been read and returned.
C1_Witness ==
    /\ Returned /\ WellFormedHeader(lines)
    /\ ExpLen(lines) # 0
    /\ Len(ChanRows(lines)) = 2
    /\ Cardinality(DOMAIN chan_headers) = 2
    /\ IndexOf(ChanCols(lines), "ChannelID") = 2

\* C2 (as claimed): when a line consumed as the channel column-name line
\* has no column named ChannelID, the parse is aborted with an error outcome
\* and neither the experiment header nor the channel mapping is returned.
C2_MissingChannelIDFails ==
    (/\ pc = "done"
     /\ \E k \in Positions("chan_columns") :
           "ChannelID" \notin Range(SplitTab(lines[k])))
        => result.kind \in {"None", "raise"}

\* C3: when an experiment value row or a channel row is consumed whose
\* token count (for a channel row, of the tokens left after the empty ones
\* are dropped) differs from the number of column names of its section, the
\* call ends returning None, and neither the experiment header nor the
\* channel mapping is changed by that row.
KeptTokens(line) == Cardinality({k \in DOMAIN SplitTab(line) : SplitTab(line)[k] # ""})
RowMismatchStep ==
    /\ pc = "parse" /\ Len(consumed') = Len(consumed) + 1
    /\ \/ /\ consumed'[i + 1] = "exp_row"
          /\ Len(SplitTab(lines[i + 1])) # Len(exp_header_headings)
       \/ /\ consumed'[i + 1] = "chan_row"
          /\ KeptTokens(lines[i + 1]) # Len(chan_header_headings)
C4_BooleanTokens ==
    (pc = "done" /\ lines \in BoolFiles) =>
        LET f == SplitTab(lines[2])[2]
            tok == SplitTab(lines[3])[2]
        IN  /\ tok = "1" => Returned /\ chan_headers[1][f] = PyBool(TRUE)
            /\ tok = "0" => Returned /\ chan_headers[1][f] = PyBool(FALSE)
            /\ tok \notin {"0", "1"} => result.kind = "raise"

\* The dataset of C5: exactly the two channels p and c, p a pulses channel,
\* c referring to p and without microtimes of its own.
TwoChannelSetup(p, c) ==
    /\ DOMAIN declared = {p, c} /\ p # c
    /\ declared[p]["IsPulsesChannel"].v
    /\ declared[c]["HasPulsesChannel"].v
    /\ declared[c]["CorrespondingPulsesChannel"] = PyInt(p)
    /\ ~declared[c]["HasMicrotimes"].v

Abs(x) == IF x < 0 THEN -x ELSE x
Span(m) == m[Len(m)] - m[1]

NoPeriod(ch) ==
    /\ declared[ch]["IsPulsesChannel"].v
    /\ \/ Len(chan_files[ch].macro) < 2
       \/ declared[ch]["TotalSyncDivider"].v = 0

C6_PulsePeriod ==
    /\ Imported =>
         \A ch \in DOMAIN chan_headers :
            LET m == chan_files[ch].macro
                den == (Len(m) - 1) * declared[ch]["TotalSyncDivider"].v
                pp == chan_headers[ch]["PulsePeriod"]
            IN  /\ (declared[ch]["IsPulsesChannel"].v /\ Len(m) >= 2
                       /\ declared[ch]["TotalSyncDivider"].v >= 1)
                      => pp.t = "int" /\ 2 * Abs(pp.v * den - Span(m)) <= den
                /\ ~declared[ch]["IsPulsesChannel"].v => pp = PyInt(0)
    /\ pc = "done" => PulsePeriodOf(<<0, 100, 200, 300>>, 1) = Ok(PyInt(100))

\* C6 witness: a pulses channel with timestamps 0, 1, 3 and divider 2 was
\* imported with PulsePeriod 1 (0.75 rounded), next to a channel that is no
\* pulses channel.
C6_Witness ==
    /\ Imported
    /\ \E ch \in DOMAIN chan_headers :
          /\ declared[ch]["IsPulsesChannel"].v
          /\ chan_files[ch].macro = <<0, 1, 3>>
          /\ declared[ch]["TotalSyncDivider"].v = 2
          /\ chan_headers[ch]["PulsePeriod"] = PyInt(1)
    /\ \E ch \in DOMAIN chan_headers : ~declared[ch]["IsPulsesChannel"].v

\* C7: after the derivation pass a channel's NumPhotons is its declared
\* value when that is non-zero, whatever the length of the macro sequence,
\* and the length of the macro sequence when the declared value is zero;
\* running the pass again on the result leaves NumPhotons unchanged.
C7_NumPhotons ==
    Imported =>
        \A ch \in DOMAIN chan_headers :
            /\ declared[ch]["NumPhotons"].v # 0
                  => chan_headers[ch]["NumPhotons"] = declared[ch]["NumPhotons"]
            /\ declared[ch]["NumPhotons"].v = 0
                  => chan_headers[ch]["NumPhotons"] = PyInt(Len(chan_files[ch].macro))
            /\ DeriveChan(chan_headers, data, ch).hdrs[ch]["NumPhotons"]
                  = chan_headers[ch]["NumPhotons"]

\* C7 witness: one channel kept a declared count of 2 over three events,
\* another was recounted from 0 to the two events it has.
C7_Witness ==
    /\ Imported
    /\ \E ch \in DOMAIN chan_headers :
          /\ declared[ch]["NumPhotons"] = PyInt(2)
          /\ Len(chan_files[ch].macro) = 3
          /\ chan_headers[ch]["NumPhotons"] = PyInt(2)
    /\ \E ch \in DOMAIN chan_headers :
          /\ declared[ch]["NumPhotons"] = PyInt(0)
          /\ chan_headers[ch]["NumPhotons"] = PyInt(2)

\* C8 (as claimed): when some channel has HasPulsesChannel true and its
\* CorrespondingPulsesChannel is unset, no key of the channel mapping, or the
\* channel's own ID, import_data fails and returns no dataset.
BadReference(ch) ==
    /\ declared[ch]["HasPulsesChannel"].v
    /\ \/ declared[ch]["CorrespondingPulsesChannel"] = PyNone
       \/ declared[ch]["CorrespondingPulsesChannel"].v \notin DOMAIN declared
       \/ declared[ch]["CorrespondingPulsesChannel"].v = ch
C8_BadReferenceFails ==
    (/\ caller = "import_data" /\ pc = "done"
     /\ \E ch \in DOMAIN declared : BadReference(ch))
        => result.kind = "raise"

\* The lines consumed as experiment value rows and applied: the loop went on
\* after them, or the call did not fail on them.
AppliedValueRows ==
    {k \in Positions("exp_row") : k < Len(consumed) \/ result.kind \in {"pending", "tuple"}}

\* C9 (as claimed): over any line sequence at most one line is ever consumed
\* and applied as an experiment value row, so that no line after the first
\* value row changes the experiment header.
C9_OneValueRow == Cardinality(AppliedValueRows) <= 1

\* C9 (amended): every line consumed as an experiment value row follows an
\* EXPERIMENT_HEADER marker line with no other value row in between, so each
\* marker admits at most one value row, and the experiment header changes
\* only in the step that consumes such a row.
C9_OneValueRowPerMarker ==
    [][/\ exp_header' # exp_header => Len(consumed') = Len(consumed) + 1
       /\ (Len(consumed') = Len(consumed) + 1 /\ consumed'[Len(consumed')] # "exp_row")
             => exp_header' = exp_header
       /\ (Len(consumed') = Len(consumed) + 1 /\ consumed'[Len(consumed')] = "exp_row")
             => \E m \in Positions("exp_marker") :
                    \A k \in (m + 1)..Len(consumed) : consumed[k] # "exp_row"]_vars

\* C9 witness: two value rows were applied, the second one replacing what
\* the first one had set.
C9_Witness ==
    /\ Returned
    /\ Cardinality(AppliedValueRows) = 2
    /\ exp_header["device_type"] = PyStr("pico")
    /\ \E k \in Positions("exp_row") : SplitTab(lines[k])[2] = "hydra"

\* C10 (as claimed): every channel record returned by read_sstt_header
\* carries every declared channel field, and each field that no column of
\* the channel section supplies holds its default: the three sync dividers
\* 1, the three booleans false, MicroDelayTime 0 and PulsePeriod 0.
ChannelFields ==
    {"ChannelID", "Filename", "NumPhotons", "NumOverflows", "Filesize",
     "HardwareSyncDivider", "AdditionalSyncDivider", "TotalSyncDivider",
     "IsPulsesChannel", "HasPulsesChannel", "HasMicrotimes",
     "CorrespondingPulsesChannel", "MicroDelayTime", "PulsePeriod"}
FieldDefaults ==
    [f \in {"HardwareSyncDivider", "AdditionalSyncDivider", "TotalSyncDivider"}
        |-> PyInt(1)]
    @@ [f \in {"IsPulsesChannel", "HasPulsesChannel", "HasMicrotimes"} |-> PyBool(FALSE)]
    @@ [f \in {"MicroDelayTime", "PulsePeriod"} |-> PyInt(0)]
C10_RecordsCarryDefaults ==
    Returned =>
        \A id \in DOMAIN chan_headers :
            /\ ChannelFields \subseteq DOMAIN chan_headers[id]
            /\ \A f \in DOMAIN FieldDefaults \ Range(chan_header_headings) :
                  chan_headers[id][f] = FieldDefaults[f]

\* C11 (as claimed): whatever the flags when a CHANNEL_HEADER line is
\* consumed, the line after it (when it is no marker line itself) is consumed
\* as the channel column-name line and as nothing else.
C11_ChannelMarkerLeadsToColumns ==
    \A k \in Positions("chan_marker") :
        (k < Len(consumed) /\ ~IsMarkerLine(lines[k + 1]))
            => consumed[k + 1] = "chan_columns"

\* The flags that are set.
FlagsSet ==
    {f \in {"start_exp_header", "exp_header_contents", "start_chan_header",
            "chan_header_contents"} :
        \/ f = "start_exp_header" /\ start_exp_header
        \/ f = "exp_header_contents" /\ exp_header_contents
        \/ f = "start_chan_header" /\ start_chan_header
        \/ f = "chan_header_contents" /\ chan_header_contents}

\* C12 (as claimed): at most one of the four flags is set at any time, and
\* an EXPERIMENT_HEADER line starts an experiment section only when no flag
\* was set before it, so that right after such a line start_exp_header is
\* the only flag set.
C12_FlagsEncodeOneState ==
    /\ Cardinality(FlagsSet) <= 1
    /\ (pc = "parse" /\ i >= 1 /\ consumed[i] = "exp_marker")
          => FlagsSet = {"start_exp_header"}

\* C13 (as claimed): when a channel row of a section whose column list names
\* ChannelID is applied, every record that is in the channel mapping
\* already, the one under the row's ChannelID included, keeps each of its
\* fields that the current column list does not name.
C13_ExistingRecordIsKept ==
    [][(/\ pc = "parse" /\ pc' = "parse"
        /\ Len(consumed') = Len(consumed) + 1
        /\ consumed'[i + 1] = "chan_row"
        /\ "ChannelID" \in Range(chan_header_headings)) =>
          \A id \in DOMAIN chan_headers :
             /\ id \in DOMAIN chan_headers'
             /\ \A f \in DOMAIN chan_headers[id] \ Range(chan_header_headings) :
                   /\ f \in DOMAIN chan_headers'[id]
                   /\ chan_headers'[id][f] = chan_headers[id][f]]_vars

\* C14 (as claimed): when a channel row has been applied (under a column
\* list of distinct names with ChannelID among them), the tokens of the line
\* beyond the last column are all empty, and the record under the token at
\* the ChannelID position holds, for every column, the value of the token at
\* that column's tab-separated position in the line.
C14_TokensKeepTheirColumns ==
    (/\ pc = "parse" /\ i >= 1 /\ consumed[i] = "chan_row"
     /\ Distinct(chan_header_headings)
     /\ "ChannelID" \in Range(chan_header_headings)) =>
        LET h == chan_header_headings
            toks == SplitTab(lines[i])
            key == toks[IndexOf(h, "ChannelID")]
        IN  /\ Len(toks) >= Len(h)
            /\ \A j \in (Len(h) + 1)..Len(toks) : toks[j] = ""
            /\ ToInt(key).ok
            /\ ToInt(key).val.v \in DOMAIN chan_headers
            /\ \A j \in DOMAIN h :
                  /\ ChanCoerce(h[j], toks[j]).ok
                  /\ chan_headers[ToInt(key).val.v][h[j]] = ChanCoerce(h[j], toks[j]).val

\* C15: the second loop of import_data never changes a macro sequence; a
\* channel it has not processed has the micro sequence the reader returned;
\* a channel it has processed without raising has generated microtimes if
\* and only if its HasPulsesChannel is true, its HasMicrotimes false and its
\* NumPhotons (after the recount) positive, and the micro sequence the reader
\* returned otherwise.
C15_MicroOverwrittenIff ==
    /\ \A ch \in DOMAIN data : data[ch].macro = chan_files[ch].macro
    /\ \A ch \in DOMAIN data \ derived : data[ch].micro = chan_files[ch].micro
    /\ result.kind # "raise" =>
          \A ch \in derived :
             /\ data[ch].micro.kind = "generated"
                   <=> /\ chan_headers[ch]["HasPulsesChannel"].v
                       /\ ~chan_headers[ch]["HasMicrotimes"].v
                       /\ chan_headers[ch]["NumPhotons"].v > 0
             /\ data[ch].micro.kind # "generated"
                   => data[ch].micro = chan_files[ch].micro

\* C15 witness: a dataset was imported in which one channel got generated
\* microtimes and another, a pulses channel with two events or more, kept
\* what the reader returned.
C15_Witness ==
    /\ Imported
    /\ \E ch \in DOMAIN data : data[ch].micro.kind = "generated"
    /\ \E ch \in DOMAIN data :
          /\ data[ch].micro = chan_files[ch].micro
          /\ declared[ch]["IsPulsesChannel"].v
          /\ Len(data[ch].macro) >= 2

\* The second loop run over the channels in the given order, from the
\* mapping and the data as given, stopping where an iteration raises.
RECURSIVE DeriveInOrder(_, _, _)
DeriveInOrder(hdrs, d, order) ==
    IF order = <<>> THEN [ok |-> TRUE, hdrs |-> hdrs, data |-> d]
    ELSE LET a == DeriveChan(hdrs, d, Head(order))
         IN  IF a.ok THEN DeriveInOrder(a.hdrs, a.data, Tail(order)) ELSE a

Orders(S) == {o \in [1..Cardinality(S) -> S] : Distinct(o)}

Loaded == caller = "import_data" /\ pc \in {"derive", "done"}
                                 /\ DOMAIN chan_files = DOMAIN declared

RefsResolve ==
    \A ch \in DOMAIN declared :
        declared[ch]["HasPulsesChannel"].v => RefKnown(declared[ch], declared)

\* C16: for every set of loaded channels in which all references resolve,
\* the second loop completes in one order of the channels if and only if it
\* completes in every order, every order then gives the same channel
\* records (NumPhotons and PulsePeriod among their fields) and the same
\* macro and micro sequences, and what import_data returns is that result.
C16_OrderIndependent ==
    (Loaded /\ RefsResolve) =>
        \A o1, o2 \in Orders(DOMAIN declared) :
            LET a == DeriveInOrder(declared, chan_files, o1)
                b == DeriveInOrder(declared, chan_files, o2)
            IN  /\ a.ok <=> b.ok
                /\ a.ok => a.hdrs = b.hdrs /\ a.data = b.data
                /\ Imported => a.ok /\ chan_headers = a.hdrs /\ data = a.data

\* C16 witness: of two channels the one that refers to the other was
\* processed first and got its microtimes, while the pulses channel, with a
\* declared count of 0 still to be recounted, was not processed yet.
C16_Witness ==
    \E p, c \in DOMAIN declared :
        /\ pc = "derive" /\ TwoChannelSetup(p, c)
        /\ derived = {c}
        /\ data[c].micro.kind = "generated"
        /\ chan_headers[p]["NumPhotons"] = PyInt(0)
        /\ Len(chan_files[p].macro) >= 2

\* C17: whenever the second loop has given channel c generated microtimes,
\* with r = c's CorrespondingPulsesChannel, they are the generator's result
\* for r's macro sequence as reference edges, c's macro sequence as events
\* and r's TotalSyncDivider as divider, and they are c's micro sequence.
C17_GeneratorArguments ==
    \A c \in DOMAIN data :
        data[c].micro.kind = "generated" =>
            LET r == declared[c]["CorrespondingPulsesChannel"].v
            IN  data[c].micro = [kind |-> "generated",
                                 pulses |-> chan_files[r].macro,
                                 events |-> chan_files[c].macro,
                                 divider |-> declared[r]["TotalSyncDivider"].v]

\* C17 witness: a channel with TotalSyncDivider 1 and two events got
\* microtimes generated against a channel with TotalSyncDivider 2.
C17_Witness ==
    \E c \in DOMAIN data :
        /\ Imported
        /\ data[c].micro.kind = "generated"
        /\ data[c].micro.divider = 2
        /\ declared[c]["TotalSyncDivider"] = PyInt(1)
        /\ Len(data[c].micro.events) = 2
        /\ data[c].micro.pulses # data[c].micro.events

\* C18 (as claimed): in every mapping read_sstt_header returns, the
\* ChannelID field of each record is the key the record is stored under.
C18_ChannelIDIsKey ==
    Returned =>
        \A id \in DOMAIN chan_headers : chan_headers[id]["ChannelID"] = PyInt(id)

\* import_data got past the header: it returned, or its second loop raised.
HeaderParsed == caller = "import_data" /\ pc = "done"
                                       /\ (Imported \/ derived # {})

\* C19 (as claimed): whenever the header was parsed and every reference to a
\* pulses channel resolves, import_data returns a dataset, in which every
\* channel has an integer PulsePeriod, whatever the lengths of the macro
\* sequences and the dividers are.
C19_ImportCompletes ==
    (HeaderParsed /\ RefsResolve) =>
        /\ Imported
        /\ \A ch \in DOMAIN chan_headers :
              /\ "PulsePeriod" \in DOMAIN chan_headers[ch]
              /\ chan_headers[ch]["PulsePeriod"].t = "int"

====
